---- MODULE Spec2Model ----
(***************************************************************************)
(* A model of the oodles document codec (src/src/lib.rs) and of the        *)
(* collection of documents kept on disk (src/src/database.rs, main.rs).    *)
(*                                                                         *)
(* Text is a sequence of one-character strings, so that formatting and     *)
(* parsing are computed character by character as the code computes them.  *)
(* Operations that can panic (todo!(), unwrap(), a slice whose start lies  *)
(* after its end) return a tagged result: Ok(v), Err or Panic.             *)
(***************************************************************************)
EXTENDS Integers, Sequences, FiniteSets, TLC

VARIABLES
    doc,      \* the Oodle under construction (an Oodle record, or None)
    msg,      \* the Message under test (a Message record, or None)
    ref,      \* the Reference under test (a Reference record, or None)
    text,     \* the text buffer: a serialization, or the text about to be parsed
    res,      \* the result of the last operation: Ok(v), Err, Panic or None
    aux,      \* what the last operation was given (the pushed message, the print flag)
    op,       \* the name of the last operation
    data,     \* the collection: the Vec<Oodle> of Oodles / Database
    disk,     \* the oodle directory: file name -> is it there, and its content
    load,     \* load_oodles: where it is, and the directory entries still to read
    tasks     \* the new_oodle calls: where each is, and the Oodle it builds

dbvars == <<data, disk, load, tasks>>

vars == <<doc, msg, ref, text, res, aux, op, data, disk, load, tasks>>

----------------------------------------------------------------------------
(* Bounds of the model *)

MaxRefLen == 5        \* longest content handed to the reference scanner
MaxIdLen == 2         \* longest document identifier inside a Reference
MaxRefMsgId == 11     \* largest message id inside a Reference
MaxContentLen == 3    \* longest content of a Message formatted and parsed alone
MaxSec == 1           \* largest second of a timestamp
MaxCodecId == 2       \* largest declared id in the codec round trips
MaxDocContentLen == 2 \* longest content of a message of a serialized document
MaxDocMsgs == 2       \* most messages of a serialized document
MaxId == 7            \* largest declared id handed to push_message
MaxMsgs == 4          \* most messages of a document in the index machine
MaxFileMsgs == 2      \* most messages of a parsed file in the index machine
MaxPieces == 4        \* most pieces of an input text handed to the parsers
MaxHandMsgs == 2      \* most messages of a hand-edited file
MaxPushMsgs == 3      \* most messages of a document that references are checked on

----------------------------------------------------------------------------
(* Results *)

None == [tag |-> "None"]
Err == [tag |-> "Err"]
Panic == [tag |-> "Panic"]
Ok(v) == [tag |-> "Ok", val |-> v]

----------------------------------------------------------------------------
(* The collection before anything is loaded or created *)

DbFiles == {"a.oodle", "b.oodle"}
NoFile == [exists |-> FALSE, content |-> <<>>]
FileWith(t) == [exists |-> TRUE, content |-> t]
Tasks == {"t1", "t2"}
IdleTask == [pc |-> "idle", oodle |-> None, save |-> "none"]

\* Oodles::new / Database::get: an empty collection
DbIdle ==
    /\ data = <<>>
    /\ disk = [f \in DbFiles |-> NoFile]
    /\ load = [pc |-> "init", todo |-> {}]
    /\ tasks = [t \in Tasks |-> IdleTask]

----------------------------------------------------------------------------
(* Characters and the str operations the code uses *)

NL == "\n"
SP == " "
Digits == <<"0", "1", "2", "3", "4", "5", "6", "7", "8", "9">>
DigitSet == {Digits[i] : i \in 1..10}
Whitespace == {NL, SP}

StrsUpTo(chars, n) == UNION {[1..k -> chars] : k \in 0..n}

Take(s, n) == SubSeq(s, 1, n)
Drop(s, n) == SubSeq(s, n + 1, Len(s))

starts_with(s, p) == Len(p) <= Len(s) /\ Take(s, Len(p)) = p
ends_with(s, p) == Len(p) <= Len(s) /\ Drop(s, Len(s) - Len(p)) = p

\* str::find: the 1-based position of the first occurrence of pat in s, 0 for None
MatchAt(s, pat, i) == SubSeq(s, i, i + Len(pat) - 1) = pat
find(s, pat) ==
    LET hits == {i \in 1..(Len(s) - Len(pat) + 1) : MatchAt(s, pat, i)}
    IN  IF hits = {} THEN 0 ELSE CHOOSE i \in hits : \A j \in hits : i <= j

\* str::rfind, as used by rsplit_once: the last occurrence, 0 for None
rfind(s, pat) ==
    LET hits == {i \in 1..(Len(s) - Len(pat) + 1) : MatchAt(s, pat, i)}
    IN  IF hits = {} THEN 0 ELSE CHOOSE i \in hits : \A j \in hits : i >= j

\* str::trim: leading and trailing whitespace removed
RECURSIVE trim_start(_)
trim_start(s) ==
    IF s # <<>> /\ Head(s) \in Whitespace THEN trim_start(Tail(s)) ELSE s
RECURSIVE trim_end(_)
trim_end(s) ==
    IF s # <<>> /\ s[Len(s)] \in Whitespace THEN trim_end(Take(s, Len(s) - 1)) ELSE s
trim(s) == trim_end(trim_start(s))

\* str::lines: split at "\n"; a final line ending adds no empty last line
RECURSIVE lines(_)
lines(s) ==
    IF s = <<>> THEN <<>>
    ELSE LET i == find(s, <<NL>>)
         IN  IF i = 0 THEN <<s>>
             ELSE <<Take(s, i - 1)>> \o lines(Drop(s, i))

\* the Display of a usize: decimal, no padding
DigitOf(c) == (CHOOSE i \in 1..10 : Digits[i] = c) - 1
RECURSIVE fmt_usize(_)
fmt_usize(n) ==
    IF n < 10 THEN <<Digits[n + 1]>>
    ELSE fmt_usize(n \div 10) \o <<Digits[(n % 10) + 1]>>

\* usize::from_str / from_str_radix(_, 10): an optional "+", then one or more digits
RECURSIVE digits_value(_, _)
digits_value(s, acc) ==
    IF s = <<>> THEN acc ELSE digits_value(Tail(s), acc * 10 + DigitOf(Head(s)))
parse_usize(s) ==
    LET body == IF s # <<>> /\ Head(s) = "+" THEN Tail(s) ELSE s
    IN  IF body = <<>> \/ \E i \in 1..Len(body) : body[i] \notin DigitSet
        THEN Err
        ELSE Ok(digits_value(body, 0))

----------------------------------------------------------------------------
(* Reference: Display and FromStr *)

RefMessage(oid, mid) == [kind |-> "Message", oodle_id |-> oid, message_id |-> mid]
RefOodle(oid) == [kind |-> "Oodle", oodle_id |-> oid, message_id |-> 0]
RefInternal(mid) == [kind |-> "Internal", oodle_id |-> <<>>, message_id |-> mid]

Reference_fmt_slashless(r) ==
    CASE r.kind = "Message" -> <<"{">> \o r.oodle_id \o fmt_usize(r.message_id) \o <<"}">>
      [] r.kind = "Oodle" -> <<"{">> \o r.oodle_id \o <<"}">>
      [] r.kind = "Internal" -> <<"{", "~">> \o fmt_usize(r.message_id) \o <<"}">>

Reference_fmt(r) ==
    CASE r.kind = "Message" ->
            <<"{">> \o r.oodle_id \o <<"/">> \o fmt_usize(r.message_id) \o <<"}">>
      [] r.kind = "Oodle" -> <<"{">> \o r.oodle_id \o <<"}">>
      [] r.kind = "Internal" -> <<"{", "~">> \o fmt_usize(r.message_id) \o <<"}">>

Reference_from_str(s) ==
    IF starts_with(s, <<"{", "~">>)
    THEN LET internal_with_hanging == Drop(s, 2)
         IN  IF Len(internal_with_hanging) = 0
             THEN Panic     \* len() - 1 underflows, the slice is out of range
             ELSE LET n == parse_usize(Take(internal_with_hanging,
                                            Len(internal_with_hanging) - 1))
                  IN  IF n.tag = "Ok" THEN Ok(RefInternal(n.val)) ELSE Err
    ELSE IF Len(s) < 2
         THEN Panic         \* &s[1..s.len() - 1] with s.len() < 2
         ELSE LET full == SubSeq(s, 2, Len(s) - 1)
                  slash == find(full, <<"/">>)
              IN  IF slash = 0
                  THEN Ok(RefOodle(full))
                  ELSE LET n == parse_usize(Drop(full, slash))
                       IN  IF n.tag = "Ok"
                           THEN Ok(RefMessage(Take(full, slash - 1), n.val))
                           ELSE Err

----------------------------------------------------------------------------
(* Message::find_references *)

RECURSIVE find_references_from(_, _)
find_references_from(s, ret) ==
    LET start_idx == find(s, <<"{">>)
        end_idx == find(s, <<"}">>)      \* searched from the start of s
    IN  IF start_idx = 0 THEN Ok(ret)
        ELSE IF end_idx = 0 THEN Ok(ret)
        ELSE IF start_idx > end_idx + 1
        THEN Panic          \* &s[start_idx..end_idx + 1]: begin > end
        ELSE LET raw == SubSeq(s, start_idx, end_idx)
                 reference == Reference_from_str(raw)
             IN  IF reference.tag = "Panic" THEN Panic
                 ELSE find_references_from(
                          Drop(s, end_idx),
                          IF reference.tag = "Ok" THEN Append(ret, reference.val) ELSE ret)

find_references(s) == find_references_from(s, <<>>)

----------------------------------------------------------------------------
(* OffsetDateTime and the dateline                                         *)
(*                                                                         *)
(* A timestamp is its whole second and its sub-second part.  TIME_FORMAT   *)
(* prints year to second and the offset and no sub-second component; the   *)
(* 24-character text is abridged to "T<second> Z", which keeps the space   *)
(* inside the text that rsplit_once(" ") can meet.                         *)

Date(sec, nano) == [sec |-> sec, nano |-> nano]

formatted_date(d) == <<"T", Digits[d.sec + 1], SP, "Z">>

\* OffsetDateTime::parse(dateline, TIME_FORMAT): the whole text must match
OffsetDateTime_parse(s) ==
    IF Len(s) = 4 /\ s[1] = "T" /\ s[2] \in DigitSet /\ s[3] = SP /\ s[4] = "Z"
    THEN Ok(Date(DigitOf(s[2]), 0))
    ELSE Err

NoIdx == -1    \* Option<usize>::None

\* Message::parse_dateline: Ok([idx, date]) or a panic, never Err
parse_dateline(line) ==
    IF ends_with(line, <<")">>)
    THEN LET sp == rfind(line, <<SP>>)
         IN  IF sp = 0 THEN Panic                   \* panic!("malformed dateline")
             ELSE LET date == Take(line, sp - 1)
                      idx == Drop(line, sp)
                  IN  IF Len(idx) < 2 THEN Panic    \* &idx[1..idx.len() - 1]
                      ELSE LET n == parse_usize(SubSeq(idx, 2, Len(idx) - 1))
                               dt == OffsetDateTime_parse(date)
                           IN  IF n.tag # "Ok" THEN Panic          \* unwrap()
                               ELSE IF dt.tag # "Ok" THEN Panic    \* panic!("{}", e)
                               ELSE Ok([idx |-> n.val, date |-> dt.val])
    ELSE LET dt == OffsetDateTime_parse(line)
         IN  IF dt.tag # "Ok" THEN Panic
             ELSE Ok([idx |-> NoIdx, date |-> dt.val])

----------------------------------------------------------------------------
(* Message *)

\* Message::new: panics when find_references does
Message_new_no_scan(id, date, content) ==
    LET refs == find_references(content)
    IN  IF refs.tag # "Ok" THEN Panic
        ELSE Ok([id |-> id, date |-> date, content |-> content,
                 references |-> <<>>, backlinks |-> <<>>])

Message_new(id, date, content) ==
    LET refs == find_references(content)
    IN  IF refs.tag # "Ok" THEN Panic
        ELSE Ok([id |-> id, date |-> date, content |-> content,
                 references |-> refs.val, backlinks |-> <<>>])

\* Message::new_now: id 0 and the current time
Message_new_now(content, now) ==
    LET refs == find_references(content)
    IN  IF refs.tag # "Ok" THEN Panic
        ELSE Ok([id |-> 0, date |-> now, content |-> content,
                 references |-> refs.val, backlinks |-> <<>>])

fmt_write_dateline(m, print_index) ==
    formatted_date(m.date)
        \o (IF print_index THEN <<SP, "(">> \o fmt_usize(m.id) \o <<")">> ELSE <<>>)
        \o <<NL>>

RECURSIVE write_lines(_)
write_lines(ls) ==
    IF ls = <<>> THEN <<>>
    ELSE (IF Head(ls) = <<".">> THEN <<".", ".", NL>> ELSE Head(ls) \o <<NL>>)
             \o write_lines(Tail(ls))

fmt_write_body(m) == write_lines(lines(m.content))

\* Display for Message (print_index = FALSE) and Message::fmt_with_idx (TRUE)
Message_fmt(m, print_index) == fmt_write_dateline(m, print_index) \o fmt_write_body(m)

RECURSIVE read_lines(_)
read_lines(ls) ==
    IF ls = <<>> THEN <<>>
    ELSE (IF Head(ls) = <<".", ".">> THEN <<".", NL>> ELSE Head(ls) \o <<NL>>)
             \o read_lines(Tail(ls))

Message_from_str(s) ==
    LET ls == lines(s)
    IN  IF ls = <<>> THEN Err          \* no dateline
        ELSE LET dl == parse_dateline(Head(ls))
             IN  IF dl.tag # "Ok" THEN dl
                 ELSE Message_new(IF dl.val.idx = NoIdx THEN 0 ELSE dl.val.idx,
                                  dl.val.date,
                                  trim(read_lines(Tail(ls))))

----------------------------------------------------------------------------
(* Oodle *)

TmpFile == "/tmp"      \* the storage key from_str sets

Oodle_new(id, name, file, first_message) ==
    [id |-> id, name |-> name, file |-> file,
     messages |-> <<first_message>>, backlinks |-> <<>>]

\* the index push_message counts on: the last id + 1, 0 without messages
next_idx(o) ==
    IF o.messages = <<>> THEN 0 ELSE o.messages[Len(o.messages)].id + 1

assigned_id_unclamped(o, m) ==
    IF m.id > 0 THEN m.id ELSE next_idx(o)

assigned_id_zero_kept(o, m) ==
    IF m.id > 0
    THEN (IF m.id < next_idx(o) THEN next_idx(o) ELSE m.id)
    ELSE m.id

\* the id push_message stores and returns
assigned_id(o, m) ==
    IF m.id > 0
    THEN (IF m.id < next_idx(o) THEN next_idx(o) ELSE m.id)
    ELSE next_idx(o)

\* Oodle::push_message: the document afterwards
push_message_front(o, m) ==
    [o EXCEPT !.messages = <<[m EXCEPT !.id = assigned_id(o, m)]>> \o @]

push_message(o, m) ==
    [o EXCEPT !.messages = Append(@, [m EXCEPT !.id = assigned_id(o, m)])]

message_by_position(o, index) ==
    IF index < Len(o.messages) THEN Ok(o.messages[index + 1]) ELSE None

\* Oodle::message
message(o, index) ==
    LET hits == {k \in 1..Len(o.messages) : o.messages[k].id = index}
    IN  IF hits = {} THEN None
        ELSE Ok(o.messages[CHOOSE k \in hits : \A j \in hits : k <= j])

Some(v) == [tag |-> "Some", val |-> v]

extract_title(s) ==
    IF starts_with(s, <<"-", "=">>) /\ ends_with(Drop(s, 2), <<"=", "-">>)
    THEN Some(trim(Take(Drop(s, 2), Len(s) - 4)))
    ELSE None

extract_id(s) ==
    IF starts_with(s, <<"[">>) /\ ends_with(Drop(s, 1), <<"]">>)
    THEN Some(Take(Drop(s, 1), Len(s) - 2))
    ELSE None

RECURSIVE fmt_messages_no_reset(_, _)
fmt_messages_no_reset(ms, idx) ==
    IF ms = <<>> THEN <<>>
    ELSE LET m == Head(ms)
         IN  <<NL>> \o Message_fmt(m, idx # m.id) \o <<".", NL>>
                 \o fmt_messages_no_reset(Tail(ms), idx + 1)

RECURSIVE fmt_messages_unindexed(_, _)
fmt_messages_unindexed(ms, idx) ==
    IF ms = <<>> THEN <<>>
    ELSE <<NL>> \o Message_fmt(Head(ms), FALSE) \o <<".", NL>>
             \o fmt_messages_unindexed(Tail(ms), idx + 1)

\* Display for Oodle, the loop over the messages
RECURSIVE fmt_messages(_, _)
fmt_messages(ms, idx) ==
    IF ms = <<>> THEN <<>>
    ELSE LET m == Head(ms)
             idx2 == IF idx # m.id THEN m.id ELSE idx
         IN  <<NL>> \o Message_fmt(m, idx # m.id) \o <<".", NL>>
                 \o fmt_messages(Tail(ms), idx2 + 1)

Oodle_fmt(o) ==
    <<"-", "=", SP>> \o o.name \o <<SP, "=", "-", NL>>
        \o <<"[">> \o o.id \o <<"]", NL>>
        \o fmt_messages(o.messages, 0)

RECURSIVE from_str_messages_no_tail(_, _)
from_str_messages_no_tail(s, oodles) ==
    LET i == find(s, <<NL, ".", NL>>)
    IN  IF i # 0
        THEN LET m == Message_from_str(trim(Take(s, i - 1)))
             IN  IF m.tag # "Ok" THEN m
                 ELSE from_str_messages_no_tail(Drop(s, i + 2),
                                                push_message(oodles, m.val))
        ELSE Ok(oodles)

\* Oodle::from_str, the loop over "\n.\n" and the text after the last one
RECURSIVE from_str_messages(_, _)
from_str_messages(s, oodles) ==
    LET i == find(s, <<NL, ".", NL>>)
    IN  IF i # 0
        THEN LET m == Message_from_str(trim(Take(s, i - 1)))
             IN  IF m.tag # "Ok" THEN m
                 ELSE from_str_messages(Drop(s, i + 2), push_message(oodles, m.val))
        ELSE IF trim(s) # <<>>
             THEN LET m == Message_from_str(trim(s))
                  IN  IF m.tag # "Ok" THEN m ELSE Ok(push_message(oodles, m.val))
             ELSE Ok(oodles)

\* Oodle::from_str; fresh is what random_base58(6) returns
Oodle_from_str(s, fresh) ==
    LET i == find(s, <<NL>>)
    IN  IF i = 0 THEN Panic                                  \* todo!(): no title
        ELSE LET title == extract_title(Take(s, i - 1))
                 s1 == Drop(s, i)
                 j == find(s1, <<NL>>)
                 id == IF j = 0 THEN None ELSE extract_id(Take(s1, j - 1))
                 s2 == IF j = 0 THEN s1 ELSE Drop(s1, j)
                 s3 == IF s2 # <<>> /\ Head(s2) = NL THEN Tail(s2) ELSE s2
             IN  IF title = None THEN Panic                  \* todo!(): title malformed
                 ELSE IF j # 0 /\ id = None THEN Panic       \* todo!(): id malformed
                 ELSE from_str_messages(
                          s3,
                          [id |-> IF id = None THEN fresh ELSE id.val,
                           name |-> title.val,
                           file |-> TmpFile,
                           messages |-> <<>>,
                           backlinks |-> <<>>])

----------------------------------------------------------------------------
(* The reference scanner and the Reference codec as a state machine: the   *)
(* input is a content string or a Reference value, the actions apply       *)
(* find_references, Display and FromStr to it.                             *)

RefChars == {"{", "}", "~", "/", "1", "a"}
RefContents == StrsUpTo(RefChars, MaxRefLen)

\* identifiers are drawn from the base58 alphabet the generator uses
IdChars == {"a", "B", "1"}
Ids == StrsUpTo(IdChars, MaxIdLen)
References ==
    {RefMessage(i, n) : i \in Ids, n \in 0..MaxRefMsgId}
        \cup {RefOodle(i) : i \in Ids}
        \cup {RefInternal(n) : n \in 0..MaxRefMsgId}

InitRef ==
    /\ doc = None
    /\ msg = None
    /\ res = None
    /\ aux = None
    /\ op = "init"
    /\ \/ text \in RefContents /\ ref = None
       \/ text = <<>> /\ ref \in References
    /\ DbIdle

\* Message::find_references(&content)
FindReferences ==
    /\ op \in {"init", "Reference_fmt"}
    /\ res' = find_references(text)
    /\ op' = "find_references"
    /\ UNCHANGED <<doc, msg, ref, text, aux>>
    /\ UNCHANGED dbvars

\* format!("{}", reference)
FormatReference ==
    /\ op = "init"
    /\ ref # None
    /\ text' = Reference_fmt(ref)
    /\ op' = "Reference_fmt"
    /\ UNCHANGED <<doc, msg, ref, res, aux>>
    /\ UNCHANGED dbvars

\* text.parse::<Reference>()
ParseReference ==
    /\ op = "Reference_fmt"
    /\ res' = Reference_from_str(text)
    /\ op' = "Reference_from_str"
    /\ UNCHANGED <<doc, msg, ref, text, aux>>
    /\ UNCHANGED dbvars

NextRef == FindReferences \/ FormatReference \/ ParseReference

SpecRef == InitRef /\ [][NextRef]_vars

----------------------------------------------------------------------------
(* The inputs of the codec machines *)

ContentChars == {"a", ".", NL, SP}
SampleContents == {<<"a", NL, ".", NL, "b">>, <<"{", "~", "1", "}">>}
Dates == {Date(sec, nano) : sec \in 0..MaxSec, nano \in {0, 1}}

\* the messages Message::new returns for the given ids, dates and contents
MessagesOf(ids, dates, contents) ==
    {r.val : r \in {q \in {Message_new(i, d, c) : i \in ids, d \in dates, c \in contents} :
                        q.tag = "Ok"}}

CodecMessages ==
    MessagesOf(0..MaxCodecId, Dates,
               StrsUpTo(ContentChars, MaxContentLen) \cup SampleContents)

DocMessages ==
    MessagesOf(0..MaxCodecId, {Date(0, 0), Date(MaxSec, 1)},
               StrsUpTo(ContentChars, MaxDocContentLen) \cup SampleContents)

DocIds == {<<"a", "B">>}
FreshIds == {<<"B", "1">>, <<"1", "a">>}
Titles == {<<"t">>, <<"t", SP, "t">>, <<SP, "t">>}
FileNames == {"/tmp/nothing.oodle"}

----------------------------------------------------------------------------
(* Message formatting and parsing as a state machine *)

InitMsg ==
    /\ doc = None
    /\ msg \in CodecMessages
    /\ ref = None
    /\ text = <<>>
    /\ res = None
    /\ aux = None
    /\ op = "init"
    /\ DbIdle

\* format!("{}", msg) and msg.fmt_with_idx(f)
FormatMessage ==
    /\ op = "init"
    /\ msg # None
    /\ \E print_index \in BOOLEAN :
           /\ text' = Message_fmt(msg, print_index)
           /\ aux' = [tag |-> "fmt", print_index |-> print_index]
    /\ res' = None
    /\ op' = "Message_fmt"
    /\ UNCHANGED <<doc, msg, ref>>
    /\ UNCHANGED dbvars

\* text.parse::<Message>()
ParseMessage ==
    /\ op \in {"init", "Message_fmt"}
    /\ res' = Message_from_str(text)
    /\ op' = "Message_from_str"
    /\ UNCHANGED <<doc, msg, ref, text, aux>>
    /\ UNCHANGED dbvars

NextMsg == FormatMessage \/ ParseMessage

SpecMsg == InitMsg /\ [][NextMsg]_vars

----------------------------------------------------------------------------
(* A document: Oodle::new, push_message, Display and FromStr.  text, res   *)
(* and aux describe the last operation only.                               *)

Init ==
    /\ doc \in {Oodle_new(i, n, f, m) :
                    i \in DocIds, n \in Titles, f \in FileNames, m \in DocMessages}
    /\ msg = None
    /\ ref = None
    /\ text = <<>>
    /\ res = None
    /\ aux = None
    /\ op = "Oodle_new"
    /\ DbIdle

\* doc.push_message(m), for a document of fewer than maxlen messages
PushMessage(pool, maxlen, maxid) ==
    /\ doc # None
    /\ Len(doc.messages) < maxlen
    /\ next_idx(doc) <= maxid
    /\ \E m \in pool :
           /\ doc' = push_message(doc, m)
           /\ res' = Ok(assigned_id(doc, m))
           /\ aux' = [tag |-> "push", msg |-> m]
    /\ text' = <<>>
    /\ op' = "push_message"
    /\ UNCHANGED <<msg, ref>>
    /\ UNCHANGED dbvars

Push == PushMessage(DocMessages, MaxDocMsgs, MaxCodecId)

\* format!("{}", doc), what save() writes
Serialize ==
    /\ doc # None
    /\ op \in {"init", "Oodle_new", "Oodle_from_str", "push_message"}
    /\ text' = Oodle_fmt(doc)
    /\ res' = None
    /\ aux' = None
    /\ op' = "Oodle_fmt"
    /\ UNCHANGED <<doc, msg, ref>>
    /\ UNCHANGED dbvars

\* text.parse::<Oodle>(), what read() does with the file
Parse ==
    /\ op \in {"init", "Oodle_fmt"}
    /\ \E fresh \in FreshIds : res' = Oodle_from_str(text, fresh)
    /\ op' = "Oodle_from_str"
    /\ UNCHANGED <<doc, msg, ref, text, aux>>
    /\ UNCHANGED dbvars

\* format!("{}", parsed), the document just parsed serialized again
Reserialize ==
    /\ op = "Oodle_from_str"
    /\ res.tag = "Ok"
    /\ text' = Oodle_fmt(res.val)
    /\ aux' = [tag |-> "reserialize", first |-> text]
    /\ op' = "reserialize"
    /\ UNCHANGED <<doc, msg, ref, res>>
    /\ UNCHANGED dbvars

Next == Push \/ Serialize \/ Parse \/ Reserialize

Spec == Init /\ [][Next]_vars

----------------------------------------------------------------------------
(* Index assignment: documents from Oodle::new, from the empty document    *)
(* from_str starts with, and from parsed files, under push_message         *)

IdxContents == {<<"a">>, <<".">>}
IdxMessages == MessagesOf(0..MaxId, {Date(0, 0)}, IdxContents)

EmptyOodle ==
    [id |-> <<"a", "B">>, name |-> <<"t">>, file |-> TmpFile,
     messages |-> <<>>, backlinks |-> <<>>]

\* a file whose datelines declare the given indices (NoIdx: no suffix)
RECURSIVE FileMessages(_)
FileMessages(declared) ==
    IF declared = <<>> THEN <<>>
    ELSE <<NL, "T", "0", SP, "Z">>
             \o (IF Head(declared) = NoIdx THEN <<>>
                 ELSE <<SP, "(">> \o fmt_usize(Head(declared)) \o <<")">>)
             \o <<NL, "a", NL, ".", NL>>
             \o FileMessages(Tail(declared))

IdxFile(declared) ==
    <<"-", "=", SP, "t", SP, "=", "-", NL, "[", "a", "B", "]", NL>>
        \o FileMessages(declared)

IdxFiles == {IdxFile(d) : d \in StrsUpTo({NoIdx} \cup 0..MaxId, MaxFileMsgs)}

LoadedOodles ==
    {r.val : r \in {q \in {Oodle_from_str(f, <<"B", "1">>) : f \in IdxFiles} :
                        q.tag = "Ok"}}

InitIdx ==
    /\ \/ doc = EmptyOodle /\ op = "init"
       \/ /\ doc \in {Oodle_new(i, <<"t">>, f, m) :
                          i \in DocIds, f \in FileNames, m \in IdxMessages}
          /\ op = "Oodle_new"
       \/ doc \in LoadedOodles /\ op = "Oodle_from_str"
    /\ msg = None
    /\ ref = None
    /\ text = <<>>
    /\ res = None
    /\ aux = None
    /\ DbIdle

PushIdx == PushMessage(IdxMessages, MaxMsgs, MaxId)

NextIdx == PushIdx \/ Serialize

SpecIdx == InitIdx /\ [][NextIdx]_vars

----------------------------------------------------------------------------
(* The parsers on arbitrary text: inputs are put together from pieces of   *)
(* well-formed and malformed files                                         *)

Pieces ==
    { <<"-", "=", SP, "t", SP, "=", "-", NL>>,      \* a title line
      <<"-", "=", "t", NL>>,                         \* a title line without "=-"
      <<"[", "a", "]", NL>>,                         \* an identifier line
      <<"a", NL>>,                                   \* a line of text
      <<NL>>,                                        \* a blank line
      <<"T", "0", SP, "Z">>,                         \* a timestamp
      <<"T", "0">>,                                  \* half a timestamp
      <<SP, "(", "1", ")">>,                         \* an index suffix
      <<SP, "(", "a", ")">>,                         \* a non-integer index suffix
      <<")">>,
      <<NL, ".", NL>> }                              \* a terminator line

RECURSIVE Flatten(_)
Flatten(ps) == IF ps = <<>> THEN <<>> ELSE Head(ps) \o Flatten(Tail(ps))

ParseInputs == {Flatten(ps) : ps \in StrsUpTo(Pieces, MaxPieces)}

InitParse ==
    /\ doc = None
    /\ msg = None
    /\ ref = None
    /\ text \in ParseInputs
    /\ res = None
    /\ aux = None
    /\ op = "init"
    /\ DbIdle

\* Message::parse_dateline(line), on a text of one line
ParseDateline ==
    /\ op = "init"
    /\ find(text, <<NL>>) = 0
    /\ res' = parse_dateline(text)
    /\ op' = "parse_dateline"
    /\ UNCHANGED <<doc, msg, ref, text, aux>>
    /\ UNCHANGED dbvars

NextParse == Parse \/ ParseMessage \/ ParseDateline

SpecParse == InitParse /\ [][NextParse]_vars

----------------------------------------------------------------------------
(* The citation grammar as the specification states it *)

AllDigits(t) == t # <<>> /\ \A i \in 1..Len(t) : t[i] \in DigitSet

\* the texts between each "{" and the first "}" after it, left to right
RECURSIVE TokensOf(_)
TokensOf(s) ==
    LET open == find(s, <<"{">>)
    IN  IF open = 0 THEN <<>>
        ELSE LET after == Drop(s, open)
                 close == find(after, <<"}">>)
             IN  IF close = 0 THEN <<>>
                 ELSE <<Take(after, close - 1)>> \o TokensOf(Drop(after, close))

\* the reference a token stands for: a sequence of one reference, or of none
Interpret(inner) ==
    IF starts_with(inner, <<"~">>)
    THEN IF AllDigits(Tail(inner))
         THEN <<RefInternal(digits_value(Tail(inner), 0))>>
         ELSE <<>>
    ELSE LET slash == find(inner, <<"/">>)
         IN  IF slash = 0 THEN <<RefOodle(inner)>>
             ELSE IF AllDigits(Drop(inner, slash))
                  THEN <<RefMessage(Take(inner, slash - 1),
                                    digits_value(Drop(inner, slash), 0))>>
                  ELSE <<>>

RECURSIVE InterpretAll(_)
InterpretAll(tokens) ==
    IF tokens = <<>> THEN <<>>
    ELSE Interpret(Head(tokens)) \o InterpretAll(Tail(tokens))

ExpectedReferences(s) == InterpretAll(TokensOf(s))

\* a "}" stands before the first "{" of s
StrayClose(s) ==
    /\ find(s, <<"}">>) # 0
    /\ find(s, <<"{">>) # 0
    /\ find(s, <<"}">>) < find(s, <<"{">>)

\* C7: the references found in a content are exactly its well-formed
\* citation tokens, in left-to-right order; malformed tokens are skipped and
\* a "{" with no "}" after it contributes nothing.
C7_ReferencesAreTheTokens ==
    op = "find_references" => res = Ok(ExpectedReferences(text))

\* C8: for every content the scan completes without failure; a "}" that
\* precedes the next "{" is ignored and the tokens after it are returned.
C8_ScanNeverFails ==
    op = "find_references" =>
        /\ res.tag = "Ok"
        /\ StrayClose(text) =>
               res.val = ExpectedReferences(Drop(text, find(text, <<"}">>)))

\* Where no "}" precedes a "{" it does not close, the scan is the grammar's.
ScanAgreesWhenItReturns ==
    (op = "find_references" /\ res.tag = "Ok") => res.val = ExpectedReferences(text)

\* C9: formatting a Reference gives {~id}, {id} or {did/mid}, and parsing
\* the formatted token gives the Reference back.
ExpectedToken(r) ==
    CASE r.kind = "Internal" -> <<"{", "~">> \o fmt_usize(r.message_id) \o <<"}">>
      [] r.kind = "Oodle" -> <<"{">> \o r.oodle_id \o <<"}">>
      [] r.kind = "Message" ->
            <<"{">> \o r.oodle_id \o <<"/">> \o fmt_usize(r.message_id) \o <<"}">>

----------------------------------------------------------------------------
(* The message and document codecs *)

HasLine(content, line) == \E k \in 1..Len(lines(content)) : lines(content)[k] = line

\* C1: parsing the text that formatting a message gives yields the message
\* again (id, timestamp, content, references), for every content, when the
\* index is printed or the id is 0.
C1_MessageRoundTrip ==
    (op = "Message_from_str" /\ aux.tag = "fmt" /\ (aux.print_index \/ msg.id = 0))
        => res = Ok(msg)

\* What the code does keep: a message whose timestamp has no sub-second
\* part and whose content is trimmed and has no ".." line comes back equal.
CleanMessage(m) ==
    /\ m.date.nano = 0
    /\ trim(m.content) = m.content
    /\ ~HasLine(m.content, <<".", ".">>)

MessageRoundTripWhenClean ==
    (op = "Message_from_str" /\ aux.tag = "fmt" /\ (aux.print_index \/ msg.id = 0)
        /\ CleanMessage(msg))
        => res = Ok(msg)

\* C2: for a document made by Oodle::new and push_message calls, parsing
\* its serialization gives a document with the same identifier, title and
\* message list.
C2_DocumentRoundTrip ==
    (op = "Oodle_from_str" /\ doc # None) =>
        /\ res.tag = "Ok"
        /\ res.val.id = doc.id
        /\ res.val.name = doc.name
        /\ res.val.messages = doc.messages

DocumentRoundTripWhenClean ==
    (op = "Oodle_from_str" /\ doc # None /\ trim(doc.name) = doc.name
        /\ \A k \in 1..Len(doc.messages) : CleanMessage(doc.messages[k]))
        => /\ res.tag = "Ok"
           /\ res.val.id = doc.id
           /\ res.val.name = doc.name
           /\ res.val.messages = doc.messages

\* C6: serializing a document, parsing the text and serializing the parsed
\* document gives the same text again, and the parsed document has as many
\* messages as the original.
C6_SaveReloadStable ==
    /\ (op = "Oodle_from_str" /\ doc # None) =>
           (res.tag = "Ok" /\ Len(res.val.messages) = Len(doc.messages))
    /\ op = "reserialize" => text = aux.first

\* The message count is kept for every content, a lone period included.
MessageCountKept ==
    (op = "Oodle_from_str" /\ doc # None) =>
        (res.tag = "Ok" /\ Len(res.val.messages) = Len(doc.messages))

\* The text is reproduced when the title and every content equal their trim.
ReserializeStableWhenTrimmed ==
    (op = "reserialize" /\ trim(doc.name) = doc.name
        /\ \A k \in 1..Len(doc.messages) :
               trim(doc.messages[k].content) = doc.messages[k].content)
        => text = aux.first

----------------------------------------------------------------------------
(* Index assignment and jump markers *)

IdsOf(o) == [k \in 1..Len(o.messages) |-> o.messages[k].id]

RECURSIVE PushAll(_, _)
PushAll(o, declared) ==
    IF declared = <<>> THEN o
    ELSE PushAll(push_message(o, Message_new(Head(declared), Date(0, 0), <<"a">>).val),
                 Tail(declared))

\* the value push_message is to count on: the id before the pushed one + 1
ExpectedAt(o, k) == IF k = 1 THEN 0 ELSE o.messages[k - 1].id + 1

\* C3: push_message stores and returns the declared id when it is > 0 and
\* >= expected (last id + 1, or 0 for no messages), and expected otherwise;
\* declared ids [0, 5, 3, 7] on an empty document are stored as [0, 5, 6, 7].
C3_IndexAssignment ==
    /\ op = "push_message" =>
           LET n == Len(doc.messages)
               declared == aux.msg.id
               expected == ExpectedAt(doc, n)
               stored == doc.messages[n].id
           IN  /\ res = Ok(stored)
               /\ stored = IF declared > 0 /\ declared >= expected
                           THEN declared ELSE expected
    /\ IdsOf(PushAll(EmptyOodle, <<0, 5, 3, 7>>)) = <<0, 5, 6, 7>>

C3_Witness ==
    /\ op = "push_message"
    /\ IdsOf(doc) = <<0, 5, 6>>
    /\ aux.msg.id = 3
    /\ res = Ok(6)

\* C4: the message ids of a document are strictly increasing in document
\* order, hence pairwise distinct, whatever ids the pushed messages declare.
C4_IdsStrictlyIncreasing ==
    doc # None =>
        \A i, j \in 1..Len(doc.messages) :
            i < j => doc.messages[i].id < doc.messages[j].id

C4_Witness ==
    /\ op = "push_message"
    /\ doc.file = TmpFile
    /\ Len(doc.messages) >= 3
    /\ aux.msg.id > 0
    /\ aux.msg.id = doc.messages[1].id

\* the datelines of a serialized document, in order
IsDateline(line) == line # <<>> /\ Head(line) = "T"
DatelinesOf(t) == SelectSeq(lines(t), IsDateline)

\* C5: in a serialized document the dateline of a message carries " (id)"
\* exactly when its id differs from the running expected value (0 for the
\* first message, the previous id + 1 afterwards).
C5_JumpMarkers ==
    op = "Oodle_fmt" =>
        LET dl == DatelinesOf(text)
        IN  /\ Len(dl) = Len(doc.messages)
            /\ \A k \in 1..Len(doc.messages) :
                   LET m == doc.messages[k]
                   IN  dl[k] = formatted_date(m.date)
                                   \o (IF m.id # ExpectedAt(doc, k)
                                       THEN <<SP, "(">> \o fmt_usize(m.id) \o <<")">>
                                       ELSE <<>>)

C5_Witness ==
    /\ op = "Oodle_fmt"
    /\ IdsOf(doc) = <<0, 2, 3>>
    /\ DatelinesOf(text) = << <<"T", "0", SP, "Z">>,
                              <<"T", "0", SP, "Z", SP, "(", "2", ")">>,
                              <<"T", "0", SP, "Z">> >>

----------------------------------------------------------------------------
(* Parse errors *)

\* C10: parsing a document, a message or a dateline ends with a value or
\* with an error returned to the caller, never with an abort.
C10_ParseErrorsAreValues ==
    op \in {"Oodle_from_str", "Message_from_str", "parse_dateline"} =>
        res.tag \in {"Ok", "Err"}

----------------------------------------------------------------------------
(* The collection: load_oodles reads every file of the oodle directory,    *)
(* new_oodle builds a document, saves it and adds it to the collection.    *)
(* Oodle::save is File::create, which empties the file, then a write from  *)
(* the start of the file; each of the two can fail, and the calls of       *)
(* Database::new_oodle interleave at every await.                          *)

Backlink(oid, mid) == [oodle_id |-> oid, message_id |-> mid]

\* Oodle::new_noid: Oodle::new with a random identifier
Oodle_new_noid(id, name, file, first_message) == Oodle_new(id, name, file, first_message)

DbIds == {<<"c", "D">>, <<"e", "F">>}
DbTitles == {<<"t">>, <<"u">>}
DbContents == {<<"a">>, <<"{", "a", "B", "}">>, <<"{", "a", "B", "/", "0", "}">>}
DbNow == Date(1, 1)

StoredOodles ==
    {Oodle_new(<<"a", "B">>, <<"b">>, TmpFile, Message_new(0, Date(0, 0), <<"a">>).val),
     push_message(Oodle_new(<<"1", "a">>, <<"c">>, TmpFile,
                            Message_new(0, Date(0, 0), <<"a">>).val),
                  Message_new(0, Date(1, 0), <<"b">>).val)}
MalformedFile == <<"x", NL>>

InitialDisks ==
    [DbFiles -> {NoFile, FileWith(MalformedFile)} \cup {FileWith(Oodle_fmt(o)) : o \in StoredOodles}]

InitDb ==
    /\ doc = None
    /\ msg = None
    /\ ref = None
    /\ text = <<>>
    /\ res = None
    /\ aux = None
    /\ op = "init"
    /\ data = <<>>
    /\ disk \in InitialDisks
    /\ load = [pc |-> "init", todo |-> {}]
    /\ tasks = [t \in Tasks |-> IdleTask]

\* load_oodles: read_dir
LoadReadDir ==
    /\ load.pc = "init"
    /\ load' = [pc |-> "reading", todo |-> {f \in DbFiles : disk[f].exists}]
    /\ op' = "read_dir"
    /\ UNCHANGED <<doc, msg, ref, text, res, aux, data, disk, tasks>>

\* load_oodles: one entry, in the order read_dir happens to give;
\* Oodle::read unwraps the parse, load_oodles unwraps Oodle::read
LoadEntry ==
    /\ load.pc = "reading"
    /\ \E f \in load.todo :
           \E fresh \in FreshIds :
               LET r == Oodle_from_str(disk[f].content, fresh)
               IN  IF r.tag = "Ok"
                   THEN /\ data' = Append(data, [r.val EXCEPT !.file = f])
                        /\ load' = [load EXCEPT !.todo = @ \ {f}]
                   ELSE /\ data' = data
                        /\ load' = [load EXCEPT !.pc = "panicked"]
    /\ op' = "Oodle_read"
    /\ UNCHANGED <<doc, msg, ref, text, res, aux, disk, tasks>>

\* load_oodles: the loop is over
LoadReturn ==
    /\ load.pc = "reading"
    /\ load.todo = {}
    /\ load' = [load EXCEPT !.pc = "done"]
    /\ op' = "load_oodles"
    /\ UNCHANGED <<doc, msg, ref, text, res, aux, data, disk, tasks>>

\* new_oodle up to File::create of Oodle::save
CreateOpen(t) ==
    /\ load.pc = "done"
    /\ tasks[t].pc = "idle"
    /\ \E title \in DbTitles, f \in DbFiles, c \in DbContents, id \in DbIds, ok \in BOOLEAN :
           LET o == Oodle_new_noid(id, title, f, Message_new_now(c, DbNow).val)
           IN  IF ok
               THEN /\ disk' = [disk EXCEPT ![f] = FileWith(<<>>)]
                    /\ tasks' = [tasks EXCEPT ![t] =
                                     [pc |-> "created", oodle |-> o, save |-> "none"]]
               ELSE /\ disk' = disk
                    /\ tasks' = [tasks EXCEPT ![t] =
                                     [pc |-> "panicked", oodle |-> o, save |-> "failed"]]
    /\ op' = "File_create"
    /\ UNCHANGED <<doc, msg, ref, text, res, aux, data, load>>

\* a write of t at the start of a file that holds old
Overwrite(old, t) == IF Len(old) > Len(t) THEN t \o Drop(old, Len(t)) ELSE t

\* Oodle::save, the write, and the unwrap of its result
CreateWrite(t) ==
    /\ tasks[t].pc = "created"
    /\ \E ok \in BOOLEAN :
           LET o == tasks[t].oodle
           IN  IF ok
               THEN /\ disk' = [disk EXCEPT ![o.file] =
                                    FileWith(Overwrite(@.content, Oodle_fmt(o)))]
                    /\ tasks' = [tasks EXCEPT ![t].pc = "saved", ![t].save = "ok"]
               ELSE /\ disk' = disk
                    /\ tasks' = [tasks EXCEPT ![t].pc = "panicked", ![t].save = "failed"]
    /\ op' = "File_write"
    /\ UNCHANGED <<doc, msg, ref, text, res, aux, data, load>>

\* new_oodle: the push under the write lock, and the return
CreatePush(t) ==
    /\ tasks[t].pc = "saved"
    /\ data' = Append(data, tasks[t].oodle)
    /\ tasks' = [tasks EXCEPT ![t].pc = "returned"]
    /\ op' = "new_oodle"
    /\ UNCHANGED <<doc, msg, ref, text, res, aux, disk, load>>

NextDb ==
    \/ LoadReadDir
    \/ LoadEntry
    \/ LoadReturn
    \/ \E t \in Tasks : CreateOpen(t) \/ CreateWrite(t) \/ CreatePush(t)

SpecDb == InitDb /\ [][NextDb]_vars

----------------------------------------------------------------------------
(* Documents built from messages of all three origins, Message::new,       *)
(* Message::new_now and Message::from_str, with references in the content  *)

PushContents == {<<"a">>, <<"{", "~", "1", "}">>, <<"{", "a", "B", "/", "0", "}">>}
PushIds == {0, 1, 4}
PushTexts ==
    {<<"T", "0", SP, "Z", SP, "(", "3", ")", NL, "{", "a", "B", "}">>,
     <<"T", "0", SP, "Z", NL, "a", SP, "{", "~", "1", "}", NL>>}

PushPool ==
    {r.val : r \in {q \in {Message_new(i, Date(0, 0), c) : i \in PushIds, c \in PushContents}
                           \cup {Message_new_now(c, Date(1, 1)) : c \in PushContents}
                           \cup {Message_from_str(t) : t \in PushTexts} :
                       q.tag = "Ok"}}

InitPush ==
    /\ \/ doc = EmptyOodle /\ op = "init"
       \/ /\ doc \in {Oodle_new(i, <<"t">>, TmpFile, m) : i \in DocIds, m \in PushPool}
          /\ op = "Oodle_new"
    /\ msg = None
    /\ ref = None
    /\ text = <<>>
    /\ res = None
    /\ aux = None
    /\ DbIdle

PushRef == PushMessage(PushPool, MaxPushMsgs, MaxId)

NextPush == PushRef

SpecPush == InitPush /\ [][NextPush]_vars

----------------------------------------------------------------------------
(* Hand-edited files: a title line, an identifier line or none, messages   *)
(* with or without a declared index, and a last message that ends with a   *)
(* terminator line, with a "." that has no line ending, or with neither    *)

TitleLine == <<"-", "=", SP, "t", SP, "=", "-", NL>>
IdLine == <<"[", "a", "B", "]", NL>>
HandHeaders == {TitleLine \o IdLine, TitleLine}
HandLeads == {<<NL>>, <<>>}
HandIdx == {NoIdx, 0, 1, 3}
HandBodies == {<<>>, <<"a", NL>>, <<"a", NL, ".", ".", NL>>}
HandEndings == {<<".", NL>>, <<".">>, <<>>}

HandMessage(idx, body) ==
    <<"T", "0", SP, "Z">>
        \o (IF idx = NoIdx THEN <<>> ELSE <<SP, "(">> \o fmt_usize(idx) \o <<")">>)
        \o <<NL>> \o body

\* the messages of a file: a blank line between two, ending after the last
RECURSIVE HandMessages(_, _)
HandMessages(ms, ending) ==
    IF ms = <<>> THEN <<>>
    ELSE IF Len(ms) = 1 THEN HandMessage(ms[1][1], ms[1][2]) \o ending
    ELSE HandMessage(ms[1][1], ms[1][2]) \o <<".", NL, NL>>
             \o HandMessages(Tail(ms), ending)

\* strip: the file's last line ending is left out
HandFile(header, lead, ms, ending, strip) ==
    LET t == header \o (IF ms = <<>> THEN <<>> ELSE lead) \o HandMessages(ms, ending)
    IN  IF strip /\ t[Len(t)] = NL THEN Take(t, Len(t) - 1) ELSE t

HandFiles ==
    {HandFile(h, l, ms, e, st) :
        h \in HandHeaders, l \in HandLeads,
        ms \in StrsUpTo(HandIdx \X HandBodies, MaxHandMsgs),
        e \in HandEndings, st \in BOOLEAN}

InitFile ==
    /\ doc = None
    /\ msg = None
    /\ ref = None
    /\ text \in HandFiles
    /\ res = None
    /\ aux = None
    /\ op = "init"
    /\ DbIdle

\* the last line of the text is not a terminator line
Unterminated(t) ==
    LET ls == lines(t) IN ls # <<>> /\ ls[Len(ls)] # <<".">>

Terminated(t) ==
    IF t # <<>> /\ t[Len(t)] = NL THEN t \o <<".", NL>> ELSE t \o <<NL, ".", NL>>

\* the same file with the terminator line after its last message, parsed
ParseTerminated ==
    /\ op = "Oodle_from_str"
    /\ doc = None
    /\ Unterminated(text)
    /\ text' = Terminated(text)
    /\ \E fresh \in FreshIds : res' = Oodle_from_str(Terminated(text), fresh)
    /\ aux' = [tag |-> "terminated", first |-> res, file |-> text]
    /\ op' = "parse_terminated"
    /\ UNCHANGED <<doc, msg, ref>>
    /\ UNCHANGED dbvars

\* the reserialized document parsed again
ParseAgain ==
    /\ op = "reserialize"
    /\ \E fresh \in FreshIds : res' = Oodle_from_str(text, fresh)
    /\ aux' = [tag |-> "again", first |-> res]
    /\ op' = "parse_again"
    /\ UNCHANGED <<doc, msg, ref, text>>
    /\ UNCHANGED dbvars

NextFile == Parse \/ Reserialize \/ ParseAgain \/ ParseTerminated

SpecFile == InitFile /\ [][NextFile]_vars

CountLines(t, line) == Cardinality({k \in 1..Len(lines(t)) : lines(t)[k] = line})

HasDateline(t) == \E k \in 1..Len(lines(t)) : IsDateline(lines(t)[k])

\* the title line is followed by no line, a blank line or a dateline
NoIdLine(t) ==
    LET ls == lines(t)
    IN  /\ ls # <<>>
        /\ extract_title(ls[1]) # None
        /\ find(t, <<NL>>) # 0
        /\ Len(ls) = 1 \/ ls[2] = <<>> \/ IsDateline(ls[2])

WithIdLine(t) == Take(t, find(t, <<NL>>)) \o IdLine \o Drop(t, find(t, <<NL>>))

\* C11: a file whose title line is not followed by an "[ID]" line parses,
\* gets a freshly generated identifier, and its messages are those of the
\* same file with the identifier line present.
C11_IdentifierLineOptional ==
    (op = "Oodle_from_str" /\ doc = None /\ NoIdLine(text)
        /\ Oodle_from_str(WithIdLine(text), <<>>).tag = "Ok")
        => /\ res.tag = "Ok"
           /\ res.val.id \in FreshIds
           /\ res.val.messages = Oodle_from_str(WithIdLine(text), <<>>).val.messages

\* What the code does: the identifier may be left out only when no line
\* ending follows the title line's.
IdentifierLineOptionalAtEndOfText ==
    (op = "Oodle_from_str" /\ doc = None /\ NoIdLine(text))
        => IF find(Drop(text, find(text, <<NL>>)), <<NL>>) = 0
           THEN res.tag = "Ok" /\ res.val.id \in FreshIds
           ELSE res.tag = "Panic"

\* C12: a file whose last message is not followed by the terminator line
\* parses to the same document (messages: count, ids, contents) as the
\* file with that terminator line.
C12_TerminatorOptionalAtEnd ==
    (op = "parse_terminated" /\ HasDateline(aux.file))
        => /\ res.tag = aux.first.tag
           /\ res.tag = "Ok" =>
                  /\ res.val.messages = aux.first.val.messages
                  /\ res.val.name = aux.first.val.name

\* It holds of the files that have the identifier line.
TerminatorOptionalWithIdLine ==
    (op = "parse_terminated" /\ HasDateline(aux.file) /\ ~NoIdLine(aux.file))
        => /\ res.tag = aux.first.tag
           /\ res.tag = "Ok" =>
                  /\ res.val.messages = aux.first.val.messages
                  /\ res.val.name = aux.first.val.name

TerminatorOptionalWitness ==
    /\ op = "parse_terminated"
    /\ res.tag = "Ok"
    /\ Len(res.val.messages) = 2
    /\ res.val.messages[2].content = <<"a", NL, ".">>
    /\ text # aux.file

RECURSIVE LoneContentLines(_)
LoneContentLines(ms) ==
    IF ms = <<>> THEN 0
    ELSE CountLines(Head(ms).content, <<".">>) + LoneContentLines(Tail(ms))

\* C17: in a parsed file every raw line "." ends a message, and the lone
\* period lines of the parsed contents come from raw ".." lines only.
C17_RawLonePeriodTerminates ==
    (op = "Oodle_from_str" /\ doc = None /\ res.tag = "Ok")
        => /\ Len(res.val.messages) >= CountLines(text, <<".">>)
           /\ LoneContentLines(res.val.messages) <= CountLines(text, <<".", ".">>)

\* It holds of the files that end with a line ending.
RawLonePeriodTerminatesBeforeLineEnding ==
    (op = "Oodle_from_str" /\ doc = None /\ res.tag = "Ok"
        /\ text # <<>> /\ text[Len(text)] = NL)
        => /\ Len(res.val.messages) >= CountLines(text, <<".">>)
           /\ LoneContentLines(res.val.messages) = CountLines(text, <<".", ".">>)

\* C18: the ids a file parses to are the ids the serialization of the
\* parsed document parses to, whatever indices the datelines declare.
C18_IdsSurviveReserialization ==
    op = "parse_again" =>
        /\ res.tag = "Ok"
        /\ IdsOf(res.val) = IdsOf(aux.first.val)

C18_Witness ==
    /\ op = "parse_again"
    /\ res.tag = "Ok"
    /\ IdsOf(res.val) = <<3, 4>>

\* C19: a message from Message::new, Message::new_now or Message::from_str
\* has the references the scan of its content gives and no backlinks, and
\* so has every message of a document after any sequence of push_message.
C19_ReferencesAreTheScan ==
    /\ \A m \in PushPool :
           m.references = find_references(m.content).val /\ m.backlinks = <<>>
    /\ \A k \in 1..Len(doc.messages) :
           /\ doc.messages[k].references = find_references(doc.messages[k].content).val
           /\ doc.messages[k].backlinks = <<>>

C19_Witness ==
    /\ op = "push_message"
    /\ Len(doc.messages) = MaxPushMsgs
    /\ doc.messages[1].references = <<RefInternal(1)>>
    /\ doc.messages[2].references = <<RefOodle(<<"a", "B">>)>>
    /\ doc.messages[3].references = <<RefMessage(<<"a", "B">>, 0)>>
    /\ doc.messages[1].date = Date(1, 1)

\* C20: push_message appends exactly one message at the end; the messages
\* stored before and the document's identifier, title, storage key and
\* backlinks stay as they were, and the stored message is the pushed one
\* but for its id.
C20_PushFrame ==
    [][op' = "push_message" =>
          /\ Len(doc'.messages) = Len(doc.messages) + 1
          /\ SubSeq(doc'.messages, 1, Len(doc.messages)) = doc.messages
          /\ doc'.id = doc.id
          /\ doc'.name = doc.name
          /\ doc'.file = doc.file
          /\ doc'.backlinks = doc.backlinks
          /\ [doc'.messages[Len(doc'.messages)] EXCEPT !.id = aux'.msg.id] = aux'.msg]_vars

C20_Witness ==
    /\ op = "push_message"
    /\ Len(doc.messages) = MaxPushMsgs
    /\ doc.messages[MaxPushMsgs].id # aux.msg.id
    /\ doc.messages[MaxPushMsgs].references # <<>>

InData(o) == \E k \in 1..Len(data) : data[k] = o

HasBacklink(backlinks, b) == \E j \in 1..Len(backlinks) : backlinks[j] = b

\* C13: when new_oodle has returned for a document A whose first message
\* holds {B} or {B/n}, a document B of the collection has the backlink
\* {A, 0}, on itself for {B}, on its message n for {B/n}.
C13_BacklinksResolvedOnCreate ==
    \A t \in Tasks :
        tasks[t].pc = "returned" =>
            LET A == tasks[t].oodle
                refs == A.messages[1].references
            IN  \A k \in 1..Len(data), j \in 1..Len(refs) :
                    LET B == data[k]
                        r == refs[j]
                    IN  r.oodle_id = B.id =>
                            IF r.kind = "Oodle"
                            THEN HasBacklink(B.backlinks, Backlink(A.id, 0))
                            ELSE message(B, r.message_id).tag = "Ok" =>
                                     HasBacklink(message(B, r.message_id).val.backlinks,
                                                 Backlink(A.id, 0))

\* What the code does: no document and no message ever gets a backlink.
BacklinksStayEmpty ==
    \A k \in 1..Len(data) :
        /\ data[k].backlinks = <<>>
        /\ \A j \in 1..Len(data[k].messages) : data[k].messages[j].backlinks = <<>>

\* C14: when the save of new_oodle fails, the call does not abort, and the
\* new document is in the collection.
C14_SaveFailureKeepsDocument ==
    \A t \in Tasks :
        tasks[t].save = "failed" =>
            /\ tasks[t].pc # "panicked"
            /\ InData(tasks[t].oodle)

\* What the code does: a failed save ends the call in a panic, before the push.
SaveFailurePanics ==
    \A t \in Tasks : tasks[t].save = "failed" <=> tasks[t].pc = "panicked"

\* C15: when load_oodles is over, every well-formed file of the directory
\* has its document in the collection, malformed files notwithstanding.
C15_LoadKeepsWellFormed ==
    (load.pc \in {"done", "panicked"} /\ \A t \in Tasks : tasks[t].pc = "idle")
        => \A f \in DbFiles :
               (disk[f].exists /\ Oodle_from_str(disk[f].content, <<>>).tag = "Ok")
                   => \E k \in 1..Len(data) : data[k].file = f

\* What the code does: the load panics if and only if some file is malformed.
LoadPanicsOnMalformed ==
    (load.pc = "done" /\ \A t \in Tasks : tasks[t].pc = "idle")
        => \A f \in DbFiles :
               disk[f].exists => Oodle_from_str(disk[f].content, <<>>).tag = "Ok"

\* C16: once every new_oodle call has returned, each document of the
\* collection has a file under its storage key that holds its serialization.
C16_FilesHoldTheCollection ==
    (\A t \in Tasks : tasks[t].pc = "returned")
        => \A k \in 1..Len(data) :
               /\ disk[data[k].file].exists
               /\ disk[data[k].file].content = Oodle_fmt(data[k])

\* It holds when no two documents of the collection share a storage key.
FilesHoldTheCollectionWhenKeysDiffer ==
    ((\A t \in Tasks : tasks[t].pc = "returned")
        /\ \A k, j \in 1..Len(data) : data[k].file = data[j].file => k = j)
        => \A k \in 1..Len(data) :
               /\ disk[data[k].file].exists
               /\ disk[data[k].file].content = Oodle_fmt(data[k])

\* C21: message(i) looks up by stored id, not by position: it returns the
\* one message whose id is i when there is one, nothing for an i in an
\* index gap or beyond the last id, and after push_message has returned k,
\* message(k) is the message just pushed.
C21_LookupById ==
    /\ \A i \in 0..(MaxId + 1) :
           LET hits == {k \in 1..Len(doc.messages) : doc.messages[k].id = i}
           IN  IF hits = {} THEN message(doc, i) = None
               ELSE /\ Cardinality(hits) = 1
                    /\ \A k \in hits : message(doc, i) = Ok(doc.messages[k])
    /\ op = "push_message" =>
           message(doc, res.val) = Ok([aux.msg EXCEPT !.id = res.val])

C21_Witness ==
    /\ op = "push_message"
    /\ Len(doc.messages) = 3
    /\ res.val > Len(doc.messages)
    /\ message(doc, res.val).tag = "Ok"
    /\ message(doc, res.val - 1) = None
    /\ message(doc, res.val + 1) = None

====
